---- MODULE Spec2Model ----
(***************************************************************************)
(* Model of TwoPopulationSimulation (src/src/TwoPopulationSimulation.py):  *)
(* the construction of the object, and simulation() as a sequence of       *)
(* steps (allocation, the two first-step updates, and per loop iteration   *)
(* the computation of the currents followed by the two halves of update).  *)
(*                                                                         *)
(* Numbers.  The program computes in IEEE doubles; the model computes in   *)
(* exact rationals <<n, d>> (d > 0, lowest terms), so rounding is not      *)
(* modelled.  Angles are kept as integer multiples of pi/2 ("quarter       *)
(* turns"), for which cos and sin are exactly -1, 0 or 1; the population   *)
(* sizes explored are those whose linspace(0, 2*pi, N) falls on quarter    *)
(* turns (N in {0, 1, 2, 3, 5}).  Of the two initializers of the class     *)
(* only uniform_voltage is modelled (as the default of simulation() and as *)
(* the bound method); centered_voltage returns values exp(-50*(2u-1)^2),   *)
(* which are not rational.                                                  *)
(***************************************************************************)
EXTENDS Integers, Sequences, FiniteSets, TLC

VARIABLES
    self,            \* attributes set by __init__ (never reassigned afterwards)
    heap,            \* array objects ever allocated: heap[id] = the six arrays
    cur,             \* id of the arrays self.hL .. self.sR refer to (0: none yet)
    xL, xR,          \* self.xL, self.xR (quarter turns)
    initial_voltage, \* argument of the running simulation() call
    pc,              \* position inside simulation()
    t,               \* loop variable of simulation()
    IL, IR,          \* locals of simulation(): the two input currents
    stages,          \* the currents after each stage of one iteration
    err,             \* the exception that ended the call, if any
    writes,          \* per array and row: who stored into it during this call
    iters,           \* values of t for which the loop body ran in this call
    ncalls_init,     \* invocations of initial_voltage in this call
    returned,        \* what the caller holds: array ids and their contents at return
    budget           \* number of simulation() calls the caller still makes

vars == <<self, heap, cur, xL, xR, initial_voltage, pc, t, IL, IR, stages, err,
          writes, iters, ncalls_init, returned, budget>>

-----------------------------------------------------------------------------
(* Exact rational arithmetic standing for the float arithmetic of the code. *)

Abs(n) == IF n < 0 THEN -n ELSE n

RECURSIVE GCD(_, _)
GCD(a, b) == IF b = 0 THEN a ELSE GCD(b, a % b)

Q(n, d) ==
    LET sg == IF d < 0 THEN -1 ELSE 1
        gg == GCD(Abs(n), Abs(d))
    IN  <<(sg * n) \div gg, (sg * d) \div gg>>

Zero == <<0, 1>>
One == <<1, 1>>
Half == <<1, 2>>

I2Q(k) == <<k, 1>>
RAdd(a, b) ==
    LET gg == GCD(a[2], b[2])
    IN  Q(a[1] * (b[2] \div gg) + b[1] * (a[2] \div gg), (a[2] \div gg) * b[2])
RNeg(a) == <<-a[1], a[2]>>
RSub(a, b) == RAdd(a, RNeg(b))
RMul(a, b) ==
    LET g1 == GCD(Abs(a[1]), b[2])
        g2 == GCD(Abs(b[1]), a[2])
    IN  Q((a[1] \div g1) * (b[1] \div g2), (a[2] \div g2) * (b[2] \div g1))
RDiv(a, b) == RMul(a, Q(b[2], b[1]))
RLt(a, b) == a[1] * b[2] < b[1] * a[2]
RLe(a, b) == a[1] * b[2] <= b[1] * a[2]

\* int(q): Python's int() of a float truncates towards zero
int(q) == IF q[1] >= 0 THEN q[1] \div q[2] ELSE -((-q[1]) \div q[2])

RECURSIVE RSum(_)
RSum(v) == IF v = <<>> THEN Zero ELSE RAdd(v[1], RSum(Tail(v)))

\* np.mean of a non-empty vector (of an empty one numpy yields nan and only
\* warns; no element of an empty result is ever read)
mean(v) == RDiv(RSum(v), I2Q(Len(v)))

\* np.cos, np.sin at k quarter turns
cos(k) == LET m == ((k % 4) + 4) % 4
          IN  IF m = 0 THEN One ELSE IF m = 2 THEN RNeg(One) ELSE Zero
sin(k) == LET m == ((k % 4) + 4) % 4
          IN  IF m = 1 THEN One ELSE IF m = 3 THEN RNeg(One) ELSE Zero

\* the firing-rate nonlinearity imported from module simulation: elementwise,
\* pure, values in [0, 1]: a ramp of slope alpha starting at beta
g(h, alpha, beta) ==
    LET v == RMul(alpha, RSub(h, beta))
    IN  IF RLt(v, Zero) THEN Zero ELSE IF RLt(One, v) THEN One ELSE v

-----------------------------------------------------------------------------
(* Optional values: None is <<>>, a value v is <<v>>.                        *)
None == <<>>
Some(v) == <<v>>

(* __init__ (lines 7-30).  kw is the record of keyword arguments.           *)
HeadDrive(kw, w) ==
    [k \in 1..Len(kw.head_population[1].s) |->
        RMul(kw.J_head,
             mean([i \in 1..Len(w) |->
                    RMul(RDiv(I2Q(kw.head_population[1].s[k][i]), kw.delta_t), w[i])]))]

TwoPopulationSimulation(kw) ==
    LET hp == kw.head_population
        w  == IF hp = None THEN <<>>
              ELSE IF kw.x THEN [i \in 1..Len(hp[1].x) |-> cos(hp[1].x[i])]
              ELSE [i \in 1..Len(hp[1].x) |-> sin(hp[1].x[i])]
    IN  [N |-> kw.N, delta_t |-> kw.delta_t, tau |-> kw.tau, T |-> kw.T,
         R |-> kw.R, r_0 |-> kw.r_0, alpha |-> kw.alpha, beta |-> kw.beta,
         J |-> kw.J, theta |-> kw.theta, I_ext |-> kw.I_ext, I0 |-> kw.I0,
         J_head |-> kw.J_head,
         w_head |-> IF hp = None THEN None ELSE Some(w),
         I_head |-> IF hp = None THEN <<>> ELSE HeadDrive(kw, w)]

-----------------------------------------------------------------------------
(* The arrays.  heap[id] = [L |-> [h, r, s], R |-> [h, r, s]]; each array   *)
(* is a sequence of rows and Python's row k is element k+1.                 *)

Pops == {"L", "R"}
Arrs == {"h", "r", "s"}

num_steps == int(RDiv(self.T, self.delta_t))

zeros(rows, n) == [k \in 1..rows |-> [i \in 1..n |-> Zero]]

\* initialize_simulation (lines 32-45), reached only when its np.zeros succeed
initialize_simulation ==
    [h |-> zeros(num_steps, self.N), r |-> zeros(num_steps, self.N),
     s |-> zeros(num_steps, self.N)]

\* initialize_positions (lines 47-55): np.linspace(0, 2*pi, N) in quarter turns
initialize_positions ==
    [i \in 1..self.N |-> IF self.N = 1 THEN 0 ELSE (4 * (i - 1)) \div (self.N - 1)]

hL == heap[cur].L.h
rL == heap[cur].L.r
sL == heap[cur].L.s
hR == heap[cur].R.h
rR == heap[cur].R.r
sR == heap[cur].R.s

\* self.hR.shape[0]
shape0 == Len(hR)

NoWrites(rows) == [P \in Pops |-> [a \in Arrs |-> [k \in 1..rows |-> <<>>]]]

\* the arrays a simulation() call binds to self.hL .. self.sR: fresh objects
AllocInPlace(hp) ==
    IF hp = <<>> THEN <<[L |-> initialize_simulation, R |-> initialize_simulation]>>
    ELSE [hp EXCEPT ![Len(hp)] = [L |-> initialize_simulation, R |-> initialize_simulation]]
Alloc(hp) == Append(hp, [L |-> initialize_simulation, R |-> initialize_simulation])

\* a[row] = v for Python row `row` of array a of population P
Store(hp, P, a, row, v) == [hp EXCEPT ![cur][P][a][row + 1] = v]
Logged(w, P, a, row, who) == [w EXCEPT ![P][a][row + 1] = Append(@, who)]

-----------------------------------------------------------------------------
(* Random draws: the model takes every outcome of positive probability.     *)

\* samples standing for np.random.uniform(0, 1, .)
UniformSamples == {Zero, Half}

\* uniform_voltage (lines 57-64): the vectors it can return
uniform_voltage == [1..self.N -> UniformSamples]

\* np.random.binomial(1, p): ValueError for p < 0 or p > 1
BinomialRaises(p) == \E i \in 1..Len(p) : RLt(p[i], Zero) \/ RLt(One, p[i])
binomial(p) ==
    {s \in [1..Len(p) -> {Zero, One}] :
        \A i \in 1..Len(p) : /\ (p[i] = Zero => s[i] = Zero)
                             /\ (p[i] = One => s[i] = One)}

\* r_0 * g(h, alpha, beta), and the spike probabilities r * delta_t
rate(h) == [i \in 1..Len(h) |-> RMul(self.r_0, g(h[i], self.alpha, self.beta))]
prob(r) == [i \in 1..Len(r) |-> RMul(r[i], self.delta_t)]

\* The callables passed as initial_voltage.  The default value of the
\* parameter (line 159) is the plain function uniform_voltage(self), which
\* takes one argument; sim.uniform_voltage is the bound method, which takes none.
DefaultInitializer == [fn |-> "uniform_voltage", params |-> {"self"}]
BoundUniform == [fn |-> "uniform_voltage", params |-> {}]
Initializers == {DefaultInitializer, BoundUniform}

\* initial_voltage() (line 93) raises TypeError when a parameter stays unbound
CallRaises(f) == f.params # {}

-----------------------------------------------------------------------------
(* The per-step computations.                                                *)

WindowStart == 300
WindowEnd == 600

\* external_input (lines 143-157)
external_input_closed(tt) ==
    IF RLe(I2Q(WindowStart), tt) /\ RLe(tt, I2Q(WindowEnd)) THEN self.I0 ELSE Zero
external_input(tt) ==
    IF RLe(I2Q(WindowStart), tt) /\ RLt(tt, I2Q(WindowEnd)) THEN self.I0 ELSE Zero

\* two_population_recurrent_input (lines 117-141); SL, SR are rate vectors
two_population_recurrent_input(pxL, pxR, SL, SR, J, theta) ==
    LET mcos_L == mean([i \in 1..Len(pxL) |-> RMul(cos(pxL[i]), SL[i])])
        mcos_R == mean([i \in 1..Len(pxR) |-> RMul(cos(pxR[i]), SR[i])])
        msin_L == mean([i \in 1..Len(pxL) |-> RMul(sin(pxL[i]), SL[i])])
        msin_R == mean([i \in 1..Len(pxR) |-> RMul(sin(pxR[i]), SR[i])])
    IN  [L |-> [i \in 1..Len(pxL) |->
                 RMul(J, RAdd(RMul(cos(pxL[i] + theta), RAdd(mcos_L, mcos_R)),
                              RMul(sin(pxL[i] + theta), RAdd(msin_L, msin_R))))],
         R |-> [i \in 1..Len(pxR) |->
                 RMul(J, RAdd(RMul(cos(pxR[i] - theta), RAdd(mcos_L, mcos_R)),
                              RMul(sin(pxR[i] - theta), RAdd(msin_L, msin_R))))]]

\* the row of sL, sR the loop body passes on (line 185)
InputRowNext(tt) == tt + 1
InputRow(tt) == tt

\* s[row] / delta_t
Rates(s, row) == [i \in 1..Len(s[row + 1]) |-> RDiv(s[row + 1][i], self.delta_t)]

\* the entry of I_head the loop body reads (lines 193-194)
HeadIndexNext(tt) == tt + 1
HeadIndex(tt) == tt

VSub(v, c) == [i \in 1..Len(v) |-> RSub(v[i], c)]
VAdd(v, c) == [i \in 1..Len(v) |-> RAdd(v[i], c)]

\* lines 109 and 113: h[t] + delta_t/tau * (-h[t] + R * I)
EulerNoLeak(h, I) ==
    [i \in 1..Len(h) |->
        RAdd(h[i], RMul(RDiv(self.delta_t, self.tau), RMul(self.R, I[i])))]
Euler(h, I) ==
    [i \in 1..Len(h) |->
        RAdd(h[i], RMul(RDiv(self.delta_t, self.tau),
                        RAdd(RNeg(h[i]), RMul(self.R, I[i]))))]

\* the row update() stores into (lines 109-115)
UpdateRowSame(tt) == tt
UpdateRow(tt) == tt + 1

\* range(self.hR.shape[0]-1) (line 183): the loop runs while t < LoopBound
LoopBoundAll == shape0
LoopBound == shape0 - 1

-----------------------------------------------------------------------------
(* simulation() (lines 159-197), one action per step.                        *)
(* pc: "new" (constructed, simulation() not yet called), "first_L",          *)
(* "first_R" (the two first_step_update calls), "loop" (at the for           *)
(* statement), "updL", "updR" (inside update), "done" (returned), "error"    *)
(* (left by an exception).                                                   *)

NoErr == [type |-> "none", at |-> "none"]
NoStages == [rec |-> [L |-> <<>>, R |-> <<>>], pulse |-> [L |-> <<>>, R |-> <<>>],
             head |-> [L |-> <<>>, R |-> <<>>]]

Raise(type) ==
    /\ pc' = "error"
    /\ err' = [type |-> type, at |-> pc]

\* lines 173-178: the caller invokes simulation(iv); arrays and positions
Call(iv) ==
    /\ pc \in {"new", "done", "error"}
    /\ budget > 0
    /\ budget' = budget - 1
    /\ initial_voltage' = iv
    /\ ncalls_init' = 0
    /\ iters' = <<>>
    /\ t' = 0
    /\ IL' = <<>>
    /\ IR' = <<>>
    /\ stages' = NoStages
    /\ IF self.delta_t = Zero
         THEN /\ pc' = "error"
              /\ err' = [type |-> "ZeroDivisionError", at |-> "alloc"]
              /\ UNCHANGED <<heap, cur, xL, xR, writes>>
         ELSE IF num_steps < 0 \/ self.N < 0
         THEN /\ pc' = "error"
              /\ err' = [type |-> "ValueError", at |-> "alloc"]
              /\ UNCHANGED <<heap, cur, xL, xR, writes>>
         ELSE /\ heap' = Alloc(heap)
              /\ cur' = Len(heap')
              /\ xL' = initialize_positions
              /\ xR' = initialize_positions
              /\ writes' = NoWrites(num_steps)
              /\ pc' = "first_L"
              /\ err' = NoErr
    /\ UNCHANGED <<self, returned>>

\* first_step_update (lines 81-97) and the stores of lines 180, 181
FirstStep(P, next) ==
    /\ ncalls_init' = ncalls_init + 1
    /\ IF CallRaises(initial_voltage)
         THEN Raise("TypeError") /\ UNCHANGED <<heap, writes>>
         ELSE \E h0 \in uniform_voltage :
                LET r0 == rate(h0) IN
                IF BinomialRaises(prob(r0))
                  THEN Raise("ValueError") /\ UNCHANGED <<heap, writes>>
                  ELSE \E s0 \in binomial(prob(r0)) :
                         IF shape0 = 0
                           THEN Raise("IndexError") /\ UNCHANGED <<heap, writes>>
                           ELSE /\ heap' = Store(Store(Store(heap, P, "h", 0, h0),
                                                       P, "r", 0, r0), P, "s", 0, s0)
                                /\ writes' = Logged(Logged(Logged(writes,
                                                 P, "h", 0, "first_step_update"),
                                                 P, "r", 0, "first_step_update"),
                                                 P, "s", 0, "first_step_update")
                                /\ pc' = next
                                /\ err' = err
    /\ UNCHANGED <<self, cur, xL, xR, initial_voltage, t, IL, IR, stages, iters,
                   returned, budget>>

FirstStepL == pc = "first_L" /\ FirstStep("L", "first_R")
FirstStepR == pc = "first_R" /\ FirstStep("R", "loop")

\* lines 183-194: one more value of t, and the currents for it
ComputeInputs ==
    /\ pc = "loop"
    /\ t < LoopBound
    /\ iters' = Append(iters, t)
    /\ LET rec == two_population_recurrent_input(xL, xR,
                      Rates(sL, InputRow(t)), Rates(sR, InputRow(t)),
                      self.J, self.theta)
           e   == external_input(RMul(I2Q(t), self.delta_t))
           pls == IF self.I_ext THEN [L |-> VSub(rec.L, e), R |-> VAdd(rec.R, e)]
                  ELSE rec
       IN  IF self.w_head = None
             THEN /\ IL' = pls.L
                  /\ IR' = pls.R
                  /\ stages' = [rec |-> rec, pulse |-> pls, head |-> pls]
                  /\ pc' = "updL"
                  /\ err' = err
           ELSE IF HeadIndex(t) >= Len(self.I_head)
             THEN /\ IL' = pls.L
                  /\ IR' = pls.R
                  /\ stages' = [rec |-> rec, pulse |-> pls, head |-> pls]
                  /\ Raise("IndexError")
           ELSE LET hd == [L |-> VSub(pls.L, self.I_head[HeadIndex(t) + 1]),
                           R |-> VAdd(pls.R, self.I_head[HeadIndex(t) + 1])]
                IN  /\ IL' = hd.L
                    /\ IR' = hd.R
                    /\ stages' = [rec |-> rec, pulse |-> pls, head |-> hd]
                    /\ pc' = "updL"
                    /\ err' = err
    /\ UNCHANGED <<self, heap, cur, xL, xR, initial_voltage, t, writes,
                   ncalls_init, returned, budget>>

\* update (lines 99-115), the three stores of one population
UpdatePop(P, I, next, tnext) ==
    /\ IF self.tau = Zero
         THEN Raise("ZeroDivisionError") /\ UNCHANGED <<heap, writes, t>>
         ELSE LET row == UpdateRow(t)
                  hn  == Euler(heap[cur][P].h[t + 1], I)
                  rn  == rate(hn)
              IN  IF row >= shape0
                    THEN Raise("IndexError") /\ UNCHANGED <<heap, writes, t>>
                  ELSE IF BinomialRaises(prob(rn))
                    THEN /\ heap' = Store(Store(heap, P, "h", row, hn), P, "r", row, rn)
                         /\ writes' = Logged(Logged(writes, P, "h", row, "update"),
                                             P, "r", row, "update")
                         /\ Raise("ValueError")
                         /\ t' = t
                  ELSE \E sn \in binomial(prob(rn)) :
                         /\ heap' = Store(Store(Store(heap, P, "h", row, hn),
                                                P, "r", row, rn), P, "s", row, sn)
                         /\ writes' = Logged(Logged(Logged(writes,
                                          P, "h", row, "update"),
                                          P, "r", row, "update"),
                                          P, "s", row, "update")
                         /\ pc' = next
                         /\ err' = err
                         /\ t' = tnext
    /\ UNCHANGED <<self, cur, xL, xR, initial_voltage, IL, IR, stages, iters,
                   ncalls_init, returned, budget>>

UpdateL == pc = "updL" /\ UpdatePop("L", IL, "updR", t)
UpdateR == pc = "updR" /\ UpdatePop("R", IR, "loop", t + 1)

\* line 197: the loop is exhausted and the four arrays are handed to the caller
Return ==
    /\ pc = "loop"
    /\ t >= LoopBound
    /\ pc' = "done"
    /\ returned' = Append(returned,
                     [id |-> cur, hL |-> hL, sL |-> sL, hR |-> hR, sR |-> sR])
    /\ UNCHANGED <<self, heap, cur, xL, xR, initial_voltage, t, IL, IR, stages,
                   err, writes, iters, ncalls_init, budget>>

Next ==
    \/ \E iv \in Initializers : Call(iv)
    \/ FirstStepL
    \/ FirstStepR
    \/ ComputeInputs
    \/ UpdateL
    \/ UpdateR
    \/ Return

-----------------------------------------------------------------------------
(* The constructed objects explored.                                         *)

Base ==
    [N |-> 1, delta_t |-> One, tau |-> I2Q(2), T |-> I2Q(3), R |-> One,
     r_0 |-> One, alpha |-> One, beta |-> Zero, J |-> One, theta |-> 0,
     I0 |-> Zero, I_ext |-> FALSE, J_head |-> One, head_population |-> None,
     x |-> TRUE]

\* leak and coupling.  With alpha = 1 a neuron at h = 1/2 spikes at random;
\* with the steep ramp (alpha = 1000, beta = 1/4) spikes are decided by h
CouplingInputs ==
    {[Base EXCEPT !.N = n, !.J = j, !.theta = th, !.R = I2Q(2),
                  !.T = IF n = 1 THEN I2Q(3) ELSE I2Q(2)] :
        n \in {1, 2}, j \in {Zero, One}, th \in {0, 1}}
    \cup {[Base EXCEPT !.N = 3, !.J = j, !.theta = th, !.alpha = I2Q(1000),
                       !.beta = <<1, 4>>] : j \in {Zero, One}, th \in {0, 1}}
    \cup {[Base EXCEPT !.N = 5, !.theta = 1, !.alpha = I2Q(1000),
                       !.beta = <<1, 4>>, !.T = I2Q(2)]}
    \cup {[Base EXCEPT !.delta_t = Half, !.tau = One, !.T = tt, !.J = j] :
            tt \in {<<3, 2>>, <<7, 4>>}, j \in {Zero, One}}

\* the pulse window: t * delta_t reaches 299, 300, 598, 599.5, 600
PulseInputs ==
    {[Base EXCEPT !.delta_t = d[1], !.T = d[2], !.tau = RMul(I2Q(2), d[1]), !.r_0 = Zero,
                  !.I_ext = ie, !.I0 = I2Q(5)] :
        d \in {<<I2Q(299), I2Q(1200)>>, <<I2Q(300), I2Q(1200)>>,
               <<I2Q(200), I2Q(1000)>>, <<I2Q(100), I2Q(800)>>,
               <<<<599, 2>>, I2Q(1200)>>},
        ie \in BOOLEAN}
    \cup {[Base EXCEPT !.delta_t = I2Q(300), !.T = I2Q(1200), !.tau = I2Q(300),
                       !.r_0 = <<1, 300>>, !.alpha = I2Q(2), !.I_ext = TRUE,
                       !.I0 = i0] : i0 \in {Zero, One}}

\* a linked head population: positions x, spikes s (one row per step)
MaxHeadLen == 3

RECURSIVE SeqsUpTo(_, _)
SeqsUpTo(S, n) ==
    IF n = 0 THEN {<<>>}
    ELSE LET shorter == SeqsUpTo(S, n - 1)
         IN  shorter \cup {Append(q, e) : q \in {r \in shorter : Len(r) = n - 1}, e \in S}

HeadPopulations ==
    {[x |-> hx, s |-> hs] : hx \in {<<0>>, <<1>>}, hs \in SeqsUpTo({<<0>>, <<1>>}, MaxHeadLen)}
    \cup {[x |-> <<0, 1>>, s |-> hs] : hs \in SeqsUpTo({<<1, 0>>}, MaxHeadLen)}

HeadInputs ==
    {[Base EXCEPT !.head_population = Some(hp), !.x = px, !.T = tt,
                  !.alpha = I2Q(2), !.J_head = I2Q(2)] :
        hp \in HeadPopulations, px \in BOOLEAN, tt \in {One, I2Q(2), I2Q(3)}}

\* configurations the specification calls invalid, and rates out of range
InvalidInputs ==
    {[Base EXCEPT !.N = n] : n \in {0, -1}}
    \cup {[Base EXCEPT !.delta_t = d, !.T = tt] :
            d \in {Zero, I2Q(-1)}, tt \in {I2Q(3), I2Q(-3)}}
    \cup {[Base EXCEPT !.tau = ta] : ta \in {Zero, I2Q(-2)}}
    \cup {[Base EXCEPT !.T = tt] : tt \in {Zero, I2Q(-3), Half}}
    \cup {[Base EXCEPT !.r_0 = r] : r \in {I2Q(2), I2Q(-1)}}

Inputs == {Base} \cup CouplingInputs \cup PulseInputs \cup HeadInputs \cup InvalidInputs

Fresh(kw, calls) ==
    /\ self = TwoPopulationSimulation(kw)
    /\ heap = <<>>
    /\ cur = 0
    /\ xL = <<>>
    /\ xR = <<>>
    /\ initial_voltage = DefaultInitializer
    /\ pc = "new"
    /\ t = 0
    /\ IL = <<>>
    /\ IR = <<>>
    /\ stages = NoStages
    /\ err = NoErr
    /\ writes = NoWrites(0)
    /\ iters = <<>>
    /\ ncalls_init = 0
    /\ returned = <<>>
    /\ budget = calls

Init == \E kw \in Inputs : Fresh(kw, 1)

Spec == Init /\ [][Next]_vars

\* a caller that calls simulation() again on the same object
MaxCalls == 2

ReentryInputs ==
    {[Base EXCEPT !.alpha = I2Q(1000), !.beta = <<1, 4>>, !.T = tt] :
        tt \in {I2Q(2), I2Q(3)}}
    \cup {[Base EXCEPT !.T = One], [Base EXCEPT !.tau = Zero]}

InitReentry == \E kw \in ReentryInputs : Fresh(kw, MaxCalls)

SpecReentry == InitReentry /\ [][Next]_vars

-----------------------------------------------------------------------------
(* Vocabulary of the properties.                                             *)

\* the arrays of the running (or last) call exist
InRun ==
    \/ pc \in {"first_L", "first_R", "loop", "updL", "updR", "done"}
    \/ pc = "error" /\ err.at # "alloc"

\* IL, IR and stages belong to iteration t
InIteration == pc \in {"updL", "updR"}

Rows(P, a) == heap[cur][P][a]
Written(P, a, k) == writes[P][a][k + 1] # <<>>

\* section 7 of the specification, ConfigurationError
InvalidConfig ==
    \/ self.N <= 0
    \/ RLe(self.delta_t, Zero)
    \/ RLe(self.tau, Zero)
    \/ RLe(self.T, Zero)
    \/ num_steps < 1

\* section 7, ShapeMismatchError
ShortHead == self.w_head # None /\ Len(self.I_head) < num_steps

\* no error class of section 7 applies (g has values in [0, 1], so the spike
\* probabilities lie in [0, r_0 * delta_t])
ValidConfig ==
    /\ ~InvalidConfig
    /\ ~ShortHead
    /\ RLe(Zero, self.r_0)
    /\ RLe(RMul(self.r_0, self.delta_t), One)

SimTime == RMul(I2Q(t), self.delta_t)

-----------------------------------------------------------------------------
(* C1: during one simulation() call every array starts zero-filled, row 0   *)
(* is stored only by the first-step update and never by update(), update()  *)
(* stores rows 1, 2, ... in increasing order without gaps, no row is stored *)
(* twice, and when the call returns every row has been stored exactly once. *)
C1_WriteOnce ==
    InRun =>
      \A P \in Pops, a \in Arrs : \A k \in 0..(Len(Rows(P, a)) - 1) :
        /\ Len(writes[P][a][k + 1]) <= 1
        /\ ~Written(P, a, k) => Rows(P, a)[k + 1] = [i \in 1..self.N |-> Zero]
        /\ k = 0 => writes[P][a][1] \in {<<>>, <<"first_step_update">>}
        /\ k > 0 => writes[P][a][k + 1] \in {<<>>, <<"update">>}
        /\ (k > 0 /\ Written(P, a, k)) => Written(P, a, k - 1)
        /\ pc = "done" => Written(P, a, k)

C1_Witness ==
    /\ pc = "done"
    /\ self.N >= 1
    /\ shape0 >= 3
    /\ \A P \in Pops, a \in Arrs : \A k \in 0..(shape0 - 1) :
         Len(writes[P][a][k + 1]) = 1

(* C2: a configuration with N <= 0, delta_t <= 0, tau <= 0, T <= 0 or       *)
(* num_steps < 1 never gets as far as a loop iteration and never returns a  *)
(* result.                                                                  *)
C2_InvalidRejected ==
    (pc # "new" /\ InvalidConfig) =>
      /\ iters = <<>>
      /\ pc \notin {"updL", "updR", "done"}

(* C3: with a head drive shorter than num_steps the call fails before       *)
(* update() stores any row, never returns, and never indexes I_head out of  *)
(* bounds inside the loop.                                                  *)
C3_ShortHeadFailsFast ==
    (InRun /\ ShortHead) =>
      /\ pc \notin {"updL", "updR", "done"}
      /\ \A P \in Pops, a \in Arrs : \A k \in 0..(shape0 - 1) :
           "update" \notin {writes[P][a][k + 1][j] : j \in 1..Len(writes[P][a][k + 1])}
      /\ ~(pc = "error" /\ err.type = "IndexError" /\ err.at = "loop")

(* C4: in every iteration the pulse changes the left current of every       *)
(* neuron by -I0 and the right current by +I0 exactly when I_ext is set and *)
(* 300 <= t*delta_t < 600, and changes neither otherwise.                   *)
C4_PulseWindow ==
    InIteration =>
      LET inWindow == /\ self.I_ext
                      /\ RLe(I2Q(300), SimTime)
                      /\ RLt(SimTime, I2Q(600))
      IN  \A i \in 1..self.N :
            /\ RSub(stages.pulse.L[i], stages.rec.L[i])
                 = IF inWindow THEN RNeg(self.I0) ELSE Zero
            /\ RSub(stages.pulse.R[i], stages.rec.R[i])
                 = IF inWindow THEN self.I0 ELSE Zero

C4_Witness ==
    /\ InIteration
    /\ self.I_ext
    /\ self.I0 = I2Q(5)
    /\ SimTime = I2Q(600)
    /\ stages.pulse = stages.rec

(* C5: with a head link, iteration t subtracts I_head[t] from the left      *)
(* current and adds it to the right one, the result being the currents      *)
(* update() receives; without a link the currents are those after the pulse *)
(* stage; and no step changes I_head (or any attribute set by __init__).    *)
C5_HeadState ==
    InIteration =>
      /\ IL = stages.head.L
      /\ IR = stages.head.R
      /\ IF self.w_head = None
           THEN stages.head = stages.pulse
           ELSE \A i \in 1..self.N :
                  /\ stages.head.L[i] = RSub(stages.pulse.L[i], self.I_head[t + 1])
                  /\ stages.head.R[i] = RAdd(stages.pulse.R[i], self.I_head[t + 1])

C5_HeadDrive == [](C5_HeadState) /\ [][self' = self]_vars

C5_Witness ==
    /\ InIteration
    /\ self.w_head # None
    /\ t >= 1
    /\ self.I_head[t + 1] # Zero
    /\ self.I_head[t + 1] # self.I_head[t]

(* C6: with J = 0, no pulse and no head link, every row stored by update()  *)
(* is the previous row times (1 - delta_t/tau), whatever spikes were drawn. *)
C6_LeakOnly ==
    (InRun /\ self.J = Zero /\ ~self.I_ext /\ self.w_head = None) =>
      \A P \in Pops : \A k \in 1..(shape0 - 1) :
        Written(P, "h", k) =>
          \A i \in 1..self.N :
            Rows(P, "h")[k + 1][i]
              = RMul(Rows(P, "h")[k][i], RSub(One, RDiv(self.delta_t, self.tau)))

C6_Witness ==
    /\ pc = "done"
    /\ self.J = Zero /\ ~self.I_ext /\ self.w_head = None
    /\ shape0 >= 3
    /\ sL[1][1] = One
    /\ sR[1][1] = Zero
    /\ hL[3][1] # Zero

(* C7: for a valid configuration the arrays have num_steps rows of N        *)
(* entries, the loop body runs for t = 0, 1, ..., num_steps-2 in that order *)
(* and for no other value, no exception leaves the loop, every step inside  *)
(* the loop decreases a non-negative measure (so the loop ends), and at the *)
(* return all rows are stored and the caller receives hL, sL, hR, sR.       *)
UpTo(n) == [k \in 1..n |-> k - 1]

C7_Shape ==
    (InRun /\ ValidConfig) =>
      /\ \A P \in Pops, a \in Arrs :
           /\ Len(Rows(P, a)) = num_steps
           /\ \A k \in 1..num_steps : Len(Rows(P, a)[k]) = self.N
      /\ pc = "loop" => iters = UpTo(t) /\ t <= num_steps - 1
      /\ pc \in {"updL", "updR"} => iters = UpTo(t + 1) /\ t <= num_steps - 2
      /\ pc = "error" => err.at \notin {"loop", "updL", "updR"}
      /\ pc = "done" =>
           /\ iters = UpTo(num_steps - 1)
           /\ \A P \in Pops, a \in Arrs : \A k \in 0..(num_steps - 1) : Written(P, a, k)
           /\ returned[Len(returned)]
                = [id |-> cur, hL |-> hL, sL |-> sL, hR |-> hR, sR |-> sR]

InLoop(p) == p \in {"loop", "updL", "updR"}
Remaining(p, tt) ==
    3 * (num_steps - 1 - tt) + (IF p = "loop" THEN 2 ELSE IF p = "updL" THEN 1 ELSE 0)

C7_Progress ==
    (ValidConfig /\ InLoop(pc)) =>
      /\ pc' \in {"loop", "updL", "updR", "done"}
      /\ InLoop(pc') => /\ Remaining(pc', t') < Remaining(pc, t)
                        /\ Remaining(pc', t') >= 0

C7_LoopBound == [](C7_Shape) /\ [][C7_Progress]_vars

C7_Witness ==
    /\ pc = "done"
    /\ ValidConfig
    /\ RMul(I2Q(num_steps), self.delta_t) # self.T
    /\ iters = <<0, 1>>

PhaseSteps ==
    {<<"new", "first_L">>, <<"done", "first_L">>, <<"error", "first_L">>,
     <<"first_L", "first_R">>, <<"first_R", "loop">>, <<"loop", "updL">>,
     <<"updL", "updR">>, <<"updR", "loop">>, <<"loop", "done">>}
    \cup {<<p, "error">> : p \in {"new", "done", "error", "first_L", "first_R",
                                  "loop", "updL", "updR"}}

ReturnedIntact ==
    \A k \in 1..Len(returned) :
      /\ heap[returned[k].id].L.h = returned[k].hL
      /\ heap[returned[k].id].L.s = returned[k].sL
      /\ heap[returned[k].id].R.h = returned[k].hR
      /\ heap[returned[k].id].R.s = returned[k].sR

InOrder == <<pc, pc'>> \in PhaseSteps

StoredUpTo(P, n) ==
    \A a \in Arrs : \A k \in 0..(shape0 - 1) : Written(P, a, k) <=> k <= n

EulerOf(h, I, i) ==
    RAdd(h[i], RMul(RDiv(self.delta_t, self.tau),
                    RSub(RMul(self.R, I[i]), h[i])))

C9_StepIsolation ==
    /\ InIteration =>
         stages.rec = two_population_recurrent_input(xL, xR,
                          Rates(sL, t), Rates(sR, t), self.J, self.theta)
    /\ pc = "updL" => StoredUpTo("L", t) /\ StoredUpTo("R", t)
    /\ pc = "updR" => StoredUpTo("L", t + 1) /\ StoredUpTo("R", t)
    /\ pc = "loop" => StoredUpTo("L", t) /\ StoredUpTo("R", t)
    /\ (pc = "loop" /\ t >= 1) =>
         /\ stages.rec = two_population_recurrent_input(xL, xR,
                             Rates(sL, t - 1), Rates(sR, t - 1), self.J, self.theta)
         /\ \A i \in 1..self.N :
              /\ hL[t + 1][i] = EulerOf(hL[t], IL, i)
              /\ hR[t + 1][i] = EulerOf(hR[t], IR, i)

C9_Witness ==
    /\ pc = "updR"
    /\ self.J # Zero
    /\ sL[t + 2] # sL[t + 1]
    /\ two_population_recurrent_input(xL, xR, Rates(sL, t + 1), Rates(sR, t),
                                      self.J, self.theta).R # stages.rec.R

(* C10: a simulation() call without an initializer argument invokes the     *)
(* initializer once per population, fills row 0 of each population with the *)
(* vector it returns, and goes on through the loop to the return.           *)
C10_DefaultInitializer ==
    (pc # "new" /\ initial_voltage = DefaultInitializer /\ ValidConfig) =>
      /\ pc # "error"
      /\ pc = "first_R" => ncalls_init = 1 /\ Written("L", "h", 0)
      /\ pc \in {"loop", "updL", "updR", "done"} => ncalls_init = 2

====
